---- MODULE Spec2Model ----
(***************************************************************************)
(* jQuery nearestElement (src/nearestNeighbor.js): a quadtree over the     *)
(* bounding boxes of a set of page elements, a pruned nearest-neighbour    *)
(* search on it (find) and a linear search (fullScan).                     *)
(*                                                                         *)
(* Numbers.  A JS Number is an IEEE double.  Coordinates are modelled in   *)
(* fixed point: every coordinate is an integer count of units in the last  *)
(* place, and the one rounding operation of the code, the halving in       *)
(* left + (right - left) / 2, rounds half to even as the double addition   *)
(* does.  $(document).width() and .height() are whole pixels, whose        *)
(* doubles have an even significand, so the document extent is even.       *)
(*                                                                         *)
(* Distances.  Math.sqrt is strictly increasing and the code only compares *)
(* distances with < and stores them, so a distance is carried as its       *)
(* square: Math.sqrt(a*a + b*b) as a*a + b*b, Math.abs(v) as v*v.          *)
(*                                                                         *)
(* Objects.  Tree nodes live in heap, a sequence of Node records; a        *)
(* reference to a node is its index, null is 0.  A reference to an Element *)
(* object is the pair of the node holding it and its index in that node's  *)
(* elements array.                                                         *)
(***************************************************************************)
EXTENDS Integers, Sequences, FiniteSets, TLC

VARIABLES
    dom,        \* the jQuery set: dom[e] is the current bounding box of element e
    pointer,    \* <<x, y>>: the point the page passes to find and fullScan
    heap,       \* the Node objects of the tree stored with data('root')
    root,       \* this.data('root'): null or the root Node
    result,     \* what the last call of find or fullScan returned
    examined,   \* history: the elements the last find measured, in order
    thrown,     \* a RangeError (stack exhausted) has left buildTree
    op          \* the last step taken

vars == <<dom, pointer, heap, root, result, examined, thrown, op>>

---------------------------------------------------------------------------
\* Bounds of the model

\* Half the document's width and height, in units in the last place.
HalfDoc == 4

\* The largest jQuery set.
MaxElems == 2

\* The deepest recursion the JS engine's stack holds.
StackLimit == 12

DocWidth == 2 * HalfDoc

DocHeight == 2 * HalfDoc

---------------------------------------------------------------------------
\* JS values

null == 0

undefined == -1

\* d = null, the distance before any branch of distanceToRectangle assigns it
nullDistance == -2

\* Number.POSITIVE_INFINITY: above every finite (squared) distance in the document
Infinity == 4 * (DocWidth * DocWidth + DocHeight * DocHeight) + 1

\* F(v) with v evaluated once: the order of evaluation of sequential code.
With(F(_), v) == CHOOSE r \in { F(w) : w \in {v} } : TRUE

\* ToNumber in a relational comparison: null is 0
ToNumber(v) == IF v = nullDistance THEN 0 ELSE v

\* Lt with <= in place of <: the comparison a tie would win.
LtOrEqual(a, b) == a # undefined /\ b # undefined /\ ToNumber(a) <= ToNumber(b)

\* a < b on Numbers; any comparison with undefined (NaN) is false
Lt(a, b) == a # undefined /\ b # undefined /\ ToNumber(a) < ToNumber(b)

Abs(v) == v * v

Min(a, b) == IF a < b THEN a ELSE b

Rectangle(top, left, bottom, right) ==
    [top |-> top, left |-> left, bottom |-> bottom, right |-> right]

\* Node with this.distance = 0 in place of Number.POSITIVE_INFINITY.
NodeAtZero(rectangle) ==
    [rectangle |-> rectangle, distance |-> 0, elements |-> <<>>,
     nw |-> null, ne |-> null, sw |-> null, se |-> null]

Node(rectangle) ==
    [rectangle |-> rectangle, distance |-> Infinity, elements |-> <<>>,
     nw |-> null, ne |-> null, sw |-> null, se |-> null]

boundingBox(d, e) == d[e]

Element(d, e) ==
    [element |-> e, rectangle |-> boundingBox(d, e), distance |-> undefined]

documentWindow == Rectangle(0, 0, DocHeight, DocWidth)

Quadrant == [NW |-> "NW", NE |-> "NE", SW |-> "SW", SE |-> "SE"]

---------------------------------------------------------------------------
\* Geometry

pythagoreanDistance(x0, y0, x1, y1) ==
    LET a == y1 - y0
        b == x1 - x0
    IN  a * a + b * b

distanceToRectangle(rect, x, y) ==
    IF x >= rect.left /\ x <= rect.right
    THEN Min(Abs(y - rect.bottom), Abs(rect.top - y))
    ELSE IF y >= rect.top /\ y <= rect.bottom
    THEN Min(Abs(x - rect.right), Abs(rect.left - x))
    ELSE IF y >= rect.bottom /\ x >= rect.right
    THEN pythagoreanDistance(x, y, rect.right, rect.bottom)
    ELSE IF y >= rect.bottom /\ x <= rect.left
    THEN pythagoreanDistance(x, y, rect.left, rect.bottom)
    ELSE IF y <= rect.top /\ x >= rect.right
    THEN pythagoreanDistance(x, y, rect.right, rect.top)
    ELSE IF y <= rect.top /\ x <= rect.left
    THEN pythagoreanDistance(x, y, rect.left, rect.top)
    ELSE nullDistance

\* midpoint with the sum truncated (Math.floor) in place of rounded.
midpointFloor(lo, hi) == lo + ((hi - lo) \div 2)

\* lo + (hi - lo) / 2: the halving is exact, the addition rounds half to even
midpoint(lo, hi) ==
    LET d == hi - lo
        down == lo + (d \div 2)
    IN  IF d % 2 = 0 THEN down
        ELSE IF down % 2 = 0 THEN down ELSE down + 1

getQuadrant(rectangle, quadrant) ==
    LET xMid == midpoint(rectangle.left, rectangle.right)
        yMid == midpoint(rectangle.top, rectangle.bottom)
    IN  CASE quadrant = Quadrant.NW ->
               Rectangle(rectangle.top, rectangle.left, yMid, xMid)
          [] quadrant = Quadrant.NE ->
               Rectangle(rectangle.top, xMid, yMid, rectangle.right)
          [] quadrant = Quadrant.SW ->
               Rectangle(yMid, rectangle.left, rectangle.bottom, xMid)
          [] quadrant = Quadrant.SE ->
               Rectangle(yMid, xMid, rectangle.bottom, rectangle.right)

quadWithPoint(rectangle, x, y) ==
    LET nw == getQuadrant(rectangle, Quadrant.NW)
    IN  IF x <= nw.right /\ y <= nw.bottom THEN Quadrant.NW
        ELSE IF x > nw.right /\ y <= nw.bottom THEN Quadrant.NE
        ELSE IF x <= nw.right /\ y > nw.bottom THEN Quadrant.SW
        ELSE IF x > nw.right /\ y > nw.bottom THEN Quadrant.SE
        ELSE "null"

---------------------------------------------------------------------------
\* Building the tree

\* node.nw, node.ne, node.sw, node.se by quadrant name
childOf(node, quadrant) ==
    CASE quadrant = Quadrant.NW -> node.nw
      [] quadrant = Quadrant.NE -> node.ne
      [] quadrant = Quadrant.SW -> node.sw
      [] quadrant = Quadrant.SE -> node.se

\* node.<quadrant> = new Node(nn.getQuadrant(boundry, <quadrant>))
newChild(h, node, quadrant) ==
    LET fresh == Len(h) + 1
        linked ==
            CASE quadrant = Quadrant.NW -> [h EXCEPT ![node].nw = fresh]
              [] quadrant = Quadrant.NE -> [h EXCEPT ![node].ne = fresh]
              [] quadrant = Quadrant.SW -> [h EXCEPT ![node].sw = fresh]
              [] quadrant = Quadrant.SE -> [h EXCEPT ![node].se = fresh]
    IN  Append(linked, Node(getQuadrant(h[node].rectangle, quadrant)))

\* quadrantOf that tests the element's top left corner alone: rect.top and
\* rect.left where the far edges rect.bottom and rect.right are meant.
quadrantOfCorner(node, element) ==
    LET boundry == node.rectangle
        xDiv == midpoint(boundry.left, boundry.right)
        yDiv == midpoint(boundry.top, boundry.bottom)
        rect == element.rectangle
    IN  IF rect.top < yDiv /\ rect.left < xDiv THEN Quadrant.NW
        ELSE IF rect.top < yDiv /\ rect.left > xDiv THEN Quadrant.NE
        ELSE IF rect.top > yDiv /\ rect.left < xDiv THEN Quadrant.SW
        ELSE IF rect.top > yDiv /\ rect.left > xDiv THEN Quadrant.SE
        ELSE "null"

\* quadrantOf of a tree whose nodes fill before they split: a node that holds
\* no element yet keeps the element, whatever quadrant it lies in.
quadrantOfFilling(node, element) ==
    LET boundry == node.rectangle
        xDiv == midpoint(boundry.left, boundry.right)
        yDiv == midpoint(boundry.top, boundry.bottom)
        rect == element.rectangle
    IN  IF Len(node.elements) = 0 THEN "null"
        ELSE IF rect.bottom < yDiv /\ rect.right < xDiv THEN Quadrant.NW
        ELSE IF rect.bottom < yDiv /\ rect.left > xDiv THEN Quadrant.NE
        ELSE IF rect.top > yDiv /\ rect.right < xDiv THEN Quadrant.SW
        ELSE IF rect.top > yDiv /\ rect.left > xDiv THEN Quadrant.SE
        ELSE "null"

\* The branch addElement takes at node for element: the quadrant it recurses
\* into, or "null" when it pushes the element onto node.elements.
quadrantOf(node, element) ==
    LET boundry == node.rectangle
        xDiv == midpoint(boundry.left, boundry.right)
        yDiv == midpoint(boundry.top, boundry.bottom)
        rect == element.rectangle
    IN  IF rect.bottom < yDiv /\ rect.right < xDiv THEN Quadrant.NW
        ELSE IF rect.bottom < yDiv /\ rect.left > xDiv THEN Quadrant.NE
        ELSE IF rect.top > yDiv /\ rect.right < xDiv THEN Quadrant.SW
        ELSE IF rect.top > yDiv /\ rect.left > xDiv THEN Quadrant.SE
        ELSE "null"

\* depth counts the frames of the recursion; the engine throws a RangeError
\* when the stack is exhausted.
RECURSIVE addElement(_, _, _, _)
addElement(h, node, element, depth) ==
    LET quadrant == quadrantOf(h[node], element)
    IN  IF quadrant = "null"
        THEN [heap |-> [h EXCEPT ![node].elements = Append(@, element)],
              thrown |-> FALSE]
        ELSE IF depth >= StackLimit
        THEN [heap |-> h, thrown |-> TRUE]
        ELSE With(LAMBDA h1 :
                      addElement(h1, childOf(h1[node], quadrant), element, depth + 1),
                  IF childOf(h[node], quadrant) = null
                  THEN newChild(h, node, quadrant)
                  ELSE h)

\* the for loop of quadtree, from index i
RECURSIVE quadtreeLoop(_, _, _, _)
quadtreeLoop(h, d, elements, i) ==
    IF i > Len(elements)
    THEN [heap |-> h, thrown |-> FALSE]
    ELSE With(LAMBDA added :
                  IF added.thrown
                  THEN added
                  ELSE quadtreeLoop(added.heap, d, elements, i + 1),
              addElement(h, 1, Element(d, elements[i]), 1))

\* elements: the elements of the set in order; d: their bounding boxes
quadtree(d, elements, rectangle) ==
    IF Len(elements) = 0
    THEN [root |-> null, heap |-> <<>>, thrown |-> FALSE]
    ELSE LET built == quadtreeLoop(<<Node(rectangle)>>, d, elements, 1)
         IN  [root |-> 1, heap |-> built.heap, thrown |-> built.thrown]

---------------------------------------------------------------------------
\* Searching

\* The Node made by new Node() in nearestNeighbor: an object no tree holds.
detached == -2

\* A reference to the Element object h[node].elements[index]; node is null,
\* undefined or detached for those values.
Ref(node, index) == [node |-> node, index |-> index]

\* best.distance
distanceOf(h, best) ==
    IF best.node = detached
    THEN Node(undefined).distance
    ELSE h[best.node].elements[best.index].distance

\* the for loop of getMinDistance, from index i
RECURSIVE getMinDistanceLoop(_, _, _, _, _, _)
getMinDistanceLoop(nodes, x, y, i, min, best) ==
    IF i > Len(nodes)
    THEN [nodes |-> nodes, best |-> best]
    ELSE LET d == distanceToRectangle(nodes[i].rectangle, x, y)
             measured == [nodes EXCEPT ![i].distance = d]
         IN  IF Lt(d, min)
             THEN getMinDistanceLoop(measured, x, y, i + 1, d, i)
             ELSE getMinDistanceLoop(measured, x, y, i + 1, min, best)

\* getMinDistance that also moves the nearest node to the front of the array.
getMinDistanceToFront(nodes, x, y) ==
    LET scan == getMinDistanceLoop(nodes, x, y, 1, Infinity, null)
        others == SelectSeq([i \in DOMAIN nodes |-> i], LAMBDA i : i # scan.best)
    IN  IF scan.best = null
        THEN scan
        ELSE [nodes |-> <<scan.nodes[scan.best]>>
                          \o [k \in DOMAIN others |-> scan.nodes[others[k]]],
              best |-> 1]

\* nodes as the call leaves them, and the index of the returned one (or null)
getMinDistance(nodes, x, y) ==
    getMinDistanceLoop(nodes, x, y, 1, Infinity, null)

\* pointQuad == nn.Quadrant.XX || quadDistance < best.distance
explores(pointQuad, quadrant, quadDistance, bestDistance) ==
    pointQuad = quadrant \/ Lt(quadDistance, bestDistance)

\* if (quadtree.elements.length > 0) { ... }: the scan of tree's bucket.
\* seen: the elements measured so far in this search (history only)
scanBucket(h, tree, x, y, best, seen) ==
    LET bucket == h[tree].elements
    IN  IF Len(bucket) > 0
        THEN With(LAMBDA scan :
                 With(LAMBDA h1 :
                          [heap |-> h1,
                           best |-> IF Lt(distanceOf(h1, Ref(tree, scan.best)),
                                          distanceOf(h1, best))
                                    THEN Ref(tree, scan.best)
                                    ELSE best,
                           examined |-> seen \o [i \in 1..Len(bucket) |->
                                                    bucket[i].element]],
                      [h EXCEPT ![tree].elements = scan.nodes]),
                 getMinDistance(bucket, x, y))
        ELSE [heap |-> h, best |-> best, examined |-> seen]

RECURSIVE nearestNeighbor(_, _, _, _, _, _)

\* if (quadtree.nw) { ... }, and the same for ne, sw, se: s is the heap, the
\* best and the history before, the value is those after.
exploreChild(s, tree, quadrant, x, y) ==
    LET child == childOf(s.heap[tree], quadrant)
        pointQuad == quadWithPoint(s.heap[tree].rectangle, x, y)
    IN  IF child # null
           /\ explores(pointQuad, quadrant,
                       distanceToRectangle(s.heap[child].rectangle, x, y),
                       distanceOf(s.heap, s.best))
        THEN nearestNeighbor(s.heap, child, x, y, s.best, s.examined)
        ELSE s

nearestNeighbor(h, tree, x, y, best, seen) ==
    IF tree = null
    THEN [heap |-> h, best |-> Ref(null, 0), examined |-> seen]
    ELSE With(LAMBDA s0 :
           With(LAMBDA s1 :
             With(LAMBDA s2 :
               With(LAMBDA s3 : exploreChild(s3, tree, Quadrant.SE, x, y),
                    exploreChild(s2, tree, Quadrant.SW, x, y)),
               exploreChild(s1, tree, Quadrant.NE, x, y)),
             exploreChild(s0, tree, Quadrant.NW, x, y)),
           scanBucket(h, tree, x, y,
                      IF best.node = undefined THEN Ref(detached, 0) ELSE best,
                      seen))

---------------------------------------------------------------------------
\* The plugin's functions

\* this.each: the elements of the set in order
each(d) == [e \in 1..Len(d) |-> e]

buildTree(d) == quadtree(d, each(d), documentWindow)

\* the this.each loop of fullScan, from element i
RECURSIVE fullScanLoop(_, _, _, _, _, _)
fullScanLoop(d, x, y, i, min_dist, closestElem) ==
    IF i > Len(d)
    THEN closestElem
    ELSE LET rect == boundingBox(d, i)
             dist == distanceToRectangle(rect, x, y)
         IN  IF Lt(dist, min_dist)
             THEN fullScanLoop(d, x, y, i + 1, dist, i)
             ELSE fullScanLoop(d, x, y, i + 1, min_dist, closestElem)

fullScan(d, x, y) == fullScanLoop(d, x, y, 1, Infinity, null)

\* if (node) return node.element; else return null: what find returns and
\* leaves stored after the search s on the tree at r.
answer(r, s) ==
    [root |-> r, heap |-> s.heap, thrown |-> FALSE,
     result |-> IF s.best.node = null THEN null
                ELSE IF s.best.node = detached THEN undefined
                ELSE s.heap[s.best.node].elements[s.best.index].element,
     examined |-> s.examined]

\* find that builds the tree on every call, whether or not one is stored.
findRebuilding(h, r, d, x, y) ==
    With(LAMBDA built :
             IF built.thrown
             THEN [root |-> r, heap |-> h, thrown |-> TRUE,
                   result |-> undefined, examined |-> <<>>]
             ELSE With(LAMBDA s : answer(built.root, s),
                       nearestNeighbor(built.heap, built.root, x, y,
                                       Ref(undefined, 0), <<>>)),
         buildTree(d))

\* find on the stored tree (h, r) of a set with bounding boxes d: the tree it
\* leaves stored, what it returns, and whether buildTree threw.
find(h, r, d, x, y) ==
    With(LAMBDA built :
             IF built.thrown
             THEN [root |-> r, heap |-> h, thrown |-> TRUE,
                   result |-> undefined, examined |-> <<>>]
             ELSE With(LAMBDA s : answer(built.root, s),
                       nearestNeighbor(built.heap, built.root, x, y,
                                       Ref(undefined, 0), <<>>)),
         IF r = null
         THEN buildTree(d)
         ELSE [root |-> r, heap |-> h, thrown |-> FALSE])

---------------------------------------------------------------------------
\* The page

\* The bounding boxes an element is drawn from: top, left, bottom, right.
RectChoices ==
    { Rectangle(2, 2, 2, 2), Rectangle(2, 5, 2, 5), Rectangle(2, 6, 2, 6),
      Rectangle(0, 0, 1, 1), Rectangle(0, 0, 0, 0), Rectangle(3, 3, 5, 5) }

\* The reflection of a bounding box through the centre of the document.
Mirror(rect) ==
    Rectangle(DocHeight - rect.bottom, DocWidth - rect.right,
              DocHeight - rect.top, DocWidth - rect.left)

\* The points a query is made from: on the document's edge, on its centre
\* lines and on each side of them.
PointerCoords == {0, 2, HalfDoc, HalfDoc + 1}

PointerChoices == PointerCoords \X PointerCoords

Init ==
    /\ dom \in UNION { [1..n -> RectChoices] : n \in 0..MaxElems }
    /\ pointer \in PointerChoices
    /\ heap = <<>>
    /\ root = null
    /\ result = undefined
    /\ examined = <<>>
    /\ thrown = FALSE
    /\ op = "init"

\* $("A").nearestElement()
BuildTree ==
    \E built \in {buildTree(dom)} :
        /\ IF built.thrown
           THEN thrown' = TRUE /\ UNCHANGED <<heap, root>>
           ELSE heap' = built.heap /\ root' = built.root /\ UNCHANGED thrown
        /\ result' = undefined
        /\ examined' = <<>>
        /\ op' = "buildTree"
        /\ UNCHANGED <<dom, pointer>>

\* $("A").nearestElement('find', x, y)
Find ==
    \E found \in {find(heap, root, dom, pointer[1], pointer[2])} :
        /\ heap' = found.heap
        /\ root' = found.root
        /\ thrown' = (thrown \/ found.thrown)
        /\ result' = found.result
        /\ examined' = found.examined
        /\ op' = "find"
        /\ UNCHANGED <<dom, pointer>>

\* $("A").nearestElement('fullScan', x, y)
FullScan ==
    /\ result' = fullScan(dom, pointer[1], pointer[2])
    /\ examined' = <<>>
    /\ op' = "fullScan"
    /\ UNCHANGED <<dom, pointer, heap, root, thrown>>

\* The page moves an element, the last of the set: its bounding box is
\* reflected through the centre of the document.
MoveElement ==
    /\ Len(dom) > 0
    /\ Mirror(dom[Len(dom)]) # dom[Len(dom)]
    /\ dom' = [dom EXCEPT ![Len(dom)] = Mirror(@)]
    /\ result' = undefined
    /\ examined' = <<>>
    /\ op' = "move"
    /\ UNCHANGED <<pointer, heap, root, thrown>>

Next ==
    \/ BuildTree
    \/ Find
    \/ FullScan
    \/ MoveElement

Spec == Init /\ [][Next]_vars

---------------------------------------------------------------------------
\* Vocabulary of the properties

px == pointer[1]

py == pointer[2]

\* The Element objects of the tree in h, each as <<node, index>>.
ElementRefs(h) ==
    UNION { { <<n, i>> : i \in DOMAIN h[n].elements } : n \in DOMAIN h }

StoredElements == ElementRefs(heap)

ElementAt(h, r) == h[r[1]].elements[r[2]]

\* No bounding box has changed since the stored tree was built.
PositionsAsBuilt ==
    \A r \in StoredElements :
        ElementAt(heap, r).rectangle = dom[ElementAt(heap, r).element]

\* The point lies inside the rectangle or on its boundary.
Inside(rect, x, y) ==
    x >= rect.left /\ x <= rect.right /\ y >= rect.top /\ y <= rect.bottom

\* How far v lies outside the interval lo..hi.
Outside(lo, hi, v) == IF v < lo THEN lo - v ELSE IF v > hi THEN v - hi ELSE 0

\* The squared Euclidean distance from the point to the closest point of rect.
Euclidean(rect, x, y) ==
    LET dx == Outside(rect.left, rect.right, x)
        dy == Outside(rect.top, rect.bottom, y)
    IN  dx * dx + dy * dy

\* The nodes of the subtree of h rooted at node n.
RECURSIVE Subtree(_, _)
Subtree(h, n) ==
    {n} \union UNION { Subtree(h, childOf(h[n], q)) :
                         q \in { q \in {"NW", "NE", "SW", "SE"} : childOf(h[n], q) # null } }

---------------------------------------------------------------------------
\* C1: find and fullScan return elements at the same distance from the point
\* whenever the set is not empty and no position has changed since the build.
C1_TreeScanEquivalence ==
    (op = "find" /\ Len(dom) > 0 /\ PositionsAsBuilt /\ ~thrown)
        => /\ result \in 1..Len(dom)
           /\ distanceToRectangle(dom[result], px, py)
                = distanceToRectangle(dom[fullScan(dom, px, py)], px, py)

\* C2: the distance the code computes for an element is never null, is 0
\* exactly for a point inside or on the boundary of its rectangle, and is
\* otherwise the positive Euclidean distance to the rectangle's closest point.
C2_DistanceCorrect ==
    op = "fullScan" =>
        \A e \in DOMAIN dom :
            LET d == distanceToRectangle(dom[e], px, py)
            IN  /\ d # nullDistance
                /\ (d = 0) <=> Inside(dom[e], px, py)
                /\ ~Inside(dom[e], px, py)
                     => d > 0 /\ d = Euclidean(dom[e], px, py)

\* C5: find returns null for an empty set, without building a tree or
\* throwing, and for any other set it returns one of the set's elements.
C5_NoneExactlyWhenEmpty ==
    op = "find" =>
        IF Len(dom) = 0
        THEN result = null /\ root = null /\ ~thrown
        ELSE result \in 1..Len(dom)

\* A find on a tree whose root holds no element returned an element.
C5_Witness ==
    /\ op = "find"
    /\ root # null
    /\ heap[root].elements = <<>>
    /\ result \in 1..Len(dom)

\* C7: the distance from the point to a node's rectangle is at most the
\* distance from the point to any element stored in that node's subtree.
C7_RegionDistanceLowerBound ==
    root # null =>
        \A n \in DOMAIN heap : \A m \in Subtree(heap, n) :
            \A i \in DOMAIN heap[m].elements :
                distanceToRectangle(heap[n].rectangle, px, py)
                    <= distanceToRectangle(heap[m].elements[i].rectangle, px, py)

---------------------------------------------------------------------------
\* The bounding box the tree in h captured for element e.
StoredBox(h, e) ==
    ElementAt(h, CHOOSE r \in ElementRefs(h) : ElementAt(h, r).element = e).rectangle

StoredBoxes(h) == [e \in DOMAIN dom |-> StoredBox(h, e)]

\* What find returns at the pointer on a tree newly built from the boxes.
Answer(boxes) == find(<<>>, null, boxes, px, py).result

Strip(h) ==
    [n \in DOMAIN h |->
        [h[n] EXCEPT !.elements =
            [i \in DOMAIN @ |-> [@[i] EXCEPT !.distance = undefined]]]]

Measured(e, seen) == \E k \in DOMAIN seen : seen[k] = e

C6_Terminates ==
    /\ ~thrown
    /\ root # null =>
         /\ \A n \in DOMAIN heap : \A q \in {"NW", "NE", "SW", "SE"} :
              LET c == childOf(heap[n], q)
              IN  c = null \/ (n < c /\ c <= Len(heap))
         /\ \A e \in DOMAIN dom :
              Cardinality({ r \in StoredElements : ElementAt(heap, r).element = e }) = 1
    /\ \A j, k \in DOMAIN examined : examined[j] = examined[k] => j = k

\* A zero-area element stored in a node one unit wide, where the halving rounds.
C6_Witness ==
    /\ root # null
    /\ \E r \in StoredElements :
         /\ ElementAt(heap, r).rectangle.left = ElementAt(heap, r).rectangle.right
         /\ ElementAt(heap, r).rectangle.top = ElementAt(heap, r).rectangle.bottom
         /\ heap[r[1]].rectangle.right - heap[r[1]].rectangle.left = 1

\* The rectangle lies strictly on one side of each of the two dividing lines.
ClearOfLines(rect, xDiv, yDiv) ==
    /\ rect.bottom < yDiv \/ rect.top > yDiv
    /\ rect.right < xDiv \/ rect.left > xDiv

Within(rect, outer) ==
    /\ rect.left >= outer.left /\ rect.right <= outer.right
    /\ rect.top >= outer.top /\ rect.bottom <= outer.bottom

\* C8: an element in a node's bucket touches or crosses one of the node's
\* dividing lines; an element in a child's subtree lies within the child's
\* rectangle and strictly on one side of each dividing line of the parent.
C8_Containment ==
    root # null =>
        \A n \in DOMAIN heap :
            LET boundry == heap[n].rectangle
                xDiv == midpoint(boundry.left, boundry.right)
                yDiv == midpoint(boundry.top, boundry.bottom)
            IN  /\ \A i \in DOMAIN heap[n].elements :
                     ~ClearOfLines(heap[n].elements[i].rectangle, xDiv, yDiv)
                /\ \A q \in {"NW", "NE", "SW", "SE"} :
                     childOf(heap[n], q) # null =>
                        \A m \in Subtree(heap, childOf(heap[n], q)) :
                            \A i \in DOMAIN heap[m].elements :
                                /\ Within(heap[m].elements[i].rectangle,
                                          heap[childOf(heap[n], q)].rectangle)
                                /\ ClearOfLines(heap[m].elements[i].rectangle, xDiv, yDiv)

\* A tree with an element in the root's bucket and one two levels below.
C8_Witness ==
    /\ root # null
    /\ heap[root].elements # <<>>
    /\ \E n \in DOMAIN heap : \E q \in {"NW", "NE", "SW", "SE"} :
         /\ n # root
         /\ childOf(heap[n], q) # null
         /\ heap[childOf(heap[n], q)].elements # <<>>

\* The nodes of the subtree of h at n: quadrant path, rectangle, bucket as a set.
RECURSIVE Shape(_, _, _)
Shape(h, n, path) ==
    { [path |-> path, rectangle |-> h[n].rectangle,
       bucket |-> { h[n].elements[i].element : i \in DOMAIN h[n].elements }] }
    \union UNION { Shape(h, childOf(h[n], q), Append(path, q)) :
                     q \in { q \in {"NW", "NE", "SW", "SE"} : childOf(h[n], q) # null } }

\* The orders in which the elements of the set can be inserted.
Orders ==
    { s \in [DOMAIN dom -> DOMAIN dom] : \A i, j \in DOMAIN dom : s[i] = s[j] => i = j }

\* C9: inserting the elements in any other order gives the same nodes, with
\* the same rectangles at the same paths and the same elements in each bucket.
C9_OrderIndependent ==
    (op = "buildTree" /\ root # null) =>
        \A order \in Orders :
            Shape(quadtree(dom, order, documentWindow).heap, 1, <<>>)
                = Shape(heap, root, <<>>)

\* A tree of two different elements that share a bucket below the root.
C9_Witness ==
    /\ op = "buildTree"
    /\ \E n \in DOMAIN heap :
         /\ n # root
         /\ Len(heap[n].elements) = 2
         /\ heap[n].elements[1].rectangle # heap[n].elements[2].rectangle

\* The first index of ds that holds its least value.
FirstMin(ds) ==
    CHOOSE i \in DOMAIN ds :
        /\ \A j \in DOMAIN ds : ds[i] <= ds[j]
        /\ \A j \in DOMAIN ds : j < i => ds[j] > ds[i]

\* The spec's scenario: A in the top left corner, B its reflection in the
\* bottom right corner, queried from the centre.
CornerScenario ==
    /\ Len(dom) = 2
    /\ dom[1] = Rectangle(0, 0, 1, 1)
    /\ dom[2] = Mirror(dom[1])
    /\ pointer = <<HalfDoc, HalfDoc>>

\* C10: fullScan returns the first element of the set at the least distance,
\* a bucket scan the first element of the bucket at the bucket's least
\* distance, and find the first element it measured at the least distance it
\* measured; in the corner scenario both modes return A.
C10_FirstSeenWins ==
    /\ (op = "fullScan" /\ Len(dom) > 0)
         => result = FirstMin([e \in DOMAIN dom |->
                                  distanceToRectangle(dom[e], px, py)])
    /\ (op = "find" /\ examined # <<>>)
         => result = examined[FirstMin([k \in DOMAIN examined |->
                        distanceToRectangle(StoredBox(heap, examined[k]), px, py)])]
    /\ root # null =>
         \A n \in DOMAIN heap :
            heap[n].elements # <<>> =>
               getMinDistance(heap[n].elements, px, py).best
                  = FirstMin([i \in DOMAIN heap[n].elements |->
                       distanceToRectangle(heap[n].elements[i].rectangle, px, py)])
    /\ (CornerScenario /\ op \in {"find", "fullScan"}) => result = 1

\* The corner scenario answered by find after measuring both elements.
C10_Witness ==
    /\ CornerScenario
    /\ op = "find"
    /\ Len(examined) = 2
    /\ result = 1

====
